---- MODULE Spec2Model ----
(***************************************************************************)
(* A model of aclman (src/aclman.py): the permission grammar (parseace,    *)
(* parseacl, getfacl), the diff engine (createchanges, chacl), the policy  *)
(* cascade (readconfig), the per-path visit (doit, chown) and the worker   *)
(* pool around the shared work queue (worker, handle_sig_int, __main__).   *)
(*                                                                         *)
(* Python strings are sequences of one-character strings, so that slicing, *)
(* partition and split are computed as the code computes them.             *)
(***************************************************************************)
EXTENDS Integers, Sequences, FiniteSets, TLC

VARIABLES
    \* ---- the run (Spec) ----
    scen,         \* the policy files on disk and the identities the host knows
    dry,          \* global dry
    recursive,    \* global recursive
    mainpc,       \* __main__: "args" before the starts are queued, "started" after
    workqueue,    \* queue.Queue(): FIFO of doit argument lists (the path is kept)
    should_exit,  \* global should_exit
    pc,           \* each worker's position in worker()
    entry,        \* each worker's dequeued entry
    issued,       \* apply primitives really issued: <<primitive, path>>
    logged,       \* operations written to the log: <<primitive, path>>
    warned,       \* level-0 warnings written: <<kind, path>>
    visited,      \* paths for which doit ran to its end or to a return
    caught,       \* each worker's caught exception ("none" when none)
    late,         \* each worker's number of dequeues made while should_exit was set
    sigint,       \* whether SIGINT was delivered
    \* ---- readconfig on one parent/child pair (SpecConfig) ----
    cin,          \* the input: parent table, local table, base name, known users
    cout,         \* readconfig's outcome
    \* ---- chacl on one path (SpecDiff) ----
    din,          \* the input: current state of the path, ACL value, path
    dout,         \* the outcome: parsed ACL, current ACL, changes, commands
    \* ---- doit on one path (SpecVisit) ----
    vin,          \* the input: policy files, host, state of the paths, path, flags
    vout          \* doit's outcome

vars == <<scen, dry, recursive, mainpc, workqueue, should_exit, pc, entry, issued,
          logged, warned, visited, caught, late, sigint, cin, cout, din, dout, vin, vout>>

runvars == <<scen, dry, recursive, mainpc, workqueue, should_exit, pc, entry, issued,
             logged, warned, visited, caught, late, sigint>>

-----------------------------------------------------------------------------
(* Python string primitives *)

\* s[a:b]
Slice(s, a, b) == SubSeq(s, a + 1, IF b > Len(s) THEN Len(s) ELSE b)

\* s[a:]
SliceFrom(s, a) == SubSeq(s, a + 1, Len(s))

\* s.startswith(p)
StartsWith(s, p) == Len(s) >= Len(p) /\ SubSeq(s, 1, Len(p)) = p

\* s.find(c) + 1: position of the first c, 0 when absent
Find(s, c) ==
    IF \E i \in 1..Len(s) : s[i] = c
    THEN CHOOSE i \in 1..Len(s) : s[i] = c /\ \A j \in 1..(i - 1) : s[j] # c
    ELSE 0

\* s.partition(c) for c first met at position i (0: absent)
PartitionAt(s, i) ==
    IF i = 0 THEN [lh |-> s, lr |-> <<>>]
    ELSE [lh |-> SubSeq(s, 1, i - 1), lr |-> SubSeq(s, i + 1, Len(s))]

\* s.partition(c): head and tail around the first c
Partition(s, c) == PartitionAt(s, Find(s, c))

RECURSIVE Split(_, _)
\* s.split(c)
Split(s, c) ==
    IF Find(s, c) = 0 THEN <<s>>
    ELSE <<Partition(s, c).lh>> \o Split(Partition(s, c).lr, c)

RECURSIVE Join(_, _)
\* c.join(parts)
Join(parts, c) ==
    IF Len(parts) = 0 THEN <<>>
    ELSE IF Len(parts) = 1 THEN parts[1]
    ELSE parts[1] \o <<c>> \o Join(Tail(parts), c)

\* list.index(x) for a list without duplicates
IndexIn(list, x) == (CHOOSE i \in 1..Len(list) : list[i] = x) - 1

InList(list, x) == \E i \in 1..Len(list) : list[i] = x

-----------------------------------------------------------------------------
(* Permission grammar *)

vrs == <<"-", "*", "r">>
vws == <<"-", "*", "w">>
vxs == <<"-", "*", "x", "X", "D">>
vss == <<"-", "*", "s", "S", "Z", "D">>

SubU == <<"u", ":">>
SubG == <<"g", ":">>
SubO == <<"o", ":">>

\* the keys of sbits
sbitsKeys == {SubU, SubG, SubO}

\* os.lstat results the grammar reads; NoStat is st = None
NoStat == [present |-> FALSE, isdir |-> FALSE, suid |-> FALSE, sgid |-> FALSE,
           svtx |-> FALSE, uid |-> 0, gid |-> 0]

\* st.st_mode & bits == bits
HasSbit(st, sub) ==
    CASE sub = SubU -> st.suid
      [] sub = SubG -> st.sgid
      [] sub = SubO -> st.svtx

\* an ACE [sub, r, w, x, s], indexed as in the code
Ace(sub, r, w, x, s) == (0 :> sub) @@ (1 :> r) @@ (2 :> w) @@ (3 :> x) @@ (4 :> s)

NoAce == Ace(<<>>, 0, 0, 0, 0)

ParseError(kind) == [err |-> kind, ace |-> NoAce]

\* the fourth field: from st when one is given, else from the optional fourth
\* character
ParseSpecial(sub, r, w, x, lr, st) ==
    IF st.present
    THEN [err |-> "none",
          ace |-> Ace(sub, r, w, x,
                      IF sub \in sbitsKeys THEN (IF HasSbit(st, sub) THEN 1 ELSE -1)
                      ELSE 0)]
    ELSE IF Len(lr) > 3
    THEN IF sub \notin sbitsKeys THEN ParseError("RuntimeError")
         ELSE IF ~InList(vss, lr[4]) THEN ParseError("RuntimeError")
         ELSE [err |-> "none", ace |-> Ace(sub, r, w, x, IndexIn(vss, lr[4]) - 1)]
    ELSE [err |-> "none", ace |-> Ace(sub, r, w, x, 0)]

\* "lr contains (r|-|*)(w|-|*)(x|-|*)": lr[k] raises IndexError past the end
ParsePerm(sub, lr, st) ==
    IF Len(lr) = 0 THEN ParseError("IndexError")
    ELSE IF ~InList(vrs, lr[1]) THEN ParseError("RuntimeError")
    ELSE IF Len(lr) < 2 THEN ParseError("IndexError")
    ELSE IF ~InList(vws, lr[2]) THEN ParseError("RuntimeError")
    ELSE IF Len(lr) < 3 THEN ParseError("IndexError")
    ELSE IF ~InList(vxs, lr[3]) THEN ParseError("RuntimeError")
    ELSE ParseSpecial(sub, IndexIn(vrs, lr[1]) - 1, IndexIn(vws, lr[2]) - 1,
                      IndexIn(vxs, lr[3]) - 1, lr, st)

\* "sub += lh" after a subject prefix: other and mask take no name
ParseName(sub, p, noname, st) ==
    IF noname /\ Len(p.lh) > 0 THEN ParseError("RuntimeError")
    ELSE ParsePerm(sub \o p.lh, p.lr, st)

\* "[u[ser]:]|g[roup]:|o[ther]:|m[ask]:", p being the partition read so far
ParseSubject(sub, p, st) ==
    IF p.lh \in {<<"u">>, <<"u", "s", "e", "r">>}
    THEN ParseName(sub \o <<"u", ":">>, Partition(p.lr, ":"), FALSE, st)
    ELSE IF p.lh \in {<<"g">>, <<"g", "r", "o", "u", "p">>}
    THEN ParseName(sub \o <<"g", ":">>, Partition(p.lr, ":"), FALSE, st)
    ELSE IF p.lh \in {<<"o">>, <<"o", "t", "h", "e", "r">>}
    THEN ParseName(sub \o <<"o", ":">>, Partition(p.lr, ":"), TRUE, st)
    ELSE IF p.lh \in {<<"m">>, <<"m", "a", "s", "k">>}
    THEN ParseName(sub \o <<"m", ":">>, Partition(p.lr, ":"), TRUE, st)
    ELSE ParseName(sub \o <<"u", ":">>, p, FALSE, st)

\* "[d[efault:]]"
ParseDefault(p, st) ==
    IF p.lh \in {<<"d">>, <<"d", "e", "f", "a", "u", "l", "t">>}
    THEN ParseSubject(<<"d", ":">>, Partition(p.lr, ":"), st)
    ELSE ParseSubject(<<>>, p, st)

parseace(acestring, st) == ParseDefault(Partition(acestring, ":"), st)

\* An ACL is a Python dict keyed by sub: a sequence of ACEs in insertion order.
AclKeys(acl) == {acl[i][0] : i \in 1..Len(acl)}

AclHas(acl, sub) == sub \in AclKeys(acl)

AclGet(acl, sub) == acl[CHOOSE i \in 1..Len(acl) : acl[i][0] = sub]

\* acl[ace[0]] = ace
AclSet(acl, ace) ==
    IF AclHas(acl, ace[0])
    THEN [i \in 1..Len(acl) |-> IF acl[i][0] = ace[0] THEN ace ELSE acl[i]]
    ELSE Append(acl, ace)

RECURSIVE ParseAces(_, _, _)

\* one turn of the loop, a being what parseace returned or raised
ParsedAce(a, rest, st, acl) ==
    IF a.err # "none" THEN [err |-> a.err, acl |-> <<>>]
    ELSE ParseAces(rest, st, AclSet(acl, a.ace))

\* the loops of parseacl and getfacl: parse each string, stop at the first error
ParseAces(strings, st, acl) ==
    IF Len(strings) = 0 THEN [err |-> "none", acl |-> acl]
    ELSE ParsedAce(parseace(Head(strings), st), Tail(strings), st, acl)

parseacl(aclstring) == ParseAces(Split(aclstring, ","), NoStat, <<>>)

\* A path's current state as lstat and getfacl report it: the stat fields and the
\* lines getfacl prints.
\* getfacl: skip empty and comment lines, parse the others against st
getfaclLines(lines) ==
    SelectSeq(lines, LAMBDA l : ~(Len(l) = 0 \/ StartsWith(l, <<"#">>)))

getfacl(cur, st) ==
    IF cur.getfaclfails THEN [err |-> "RuntimeError", acl |-> <<>>]
    ELSE ParseAces(getfaclLines(cur.lines), st, <<>>)

-----------------------------------------------------------------------------
(* Diff engine *)

RECURSIVE Flatten(_)
Flatten(ss) == IF Len(ss) = 0 THEN <<>> ELSE Head(ss) \o Flatten(Tail(ss))

rwx == <<"r", "w", "x">>

\* if i >= 3 and na >= 2: na = bigvalues[i - 3][na - 2]
bigvalue(bigvalues, i, na) ==
    IF i >= 3 /\ na >= 2 THEN bigvalues[i - 3 + 1][na - 2 + 1] ELSE na

\* the mode mutation of field i of an owner/owning-group/other entry, na being
\* the resolved new value
ModOfField(sub, i, na, ca) ==
    IF na # 0 /\ na # ca
    THEN <<IF i = 4
           THEN (IF sub = SubO THEN <<IF na = -1 THEN "-" ELSE "+", "t">>
                 ELSE <<sub[1], IF na = -1 THEN "-" ELSE "+", "s">>)
           ELSE <<sub[1], IF na = -1 THEN "-" ELSE "+", rwx[i]>>>>
    ELSE <<>>

\* "for i in ([1, 2, 3, 4] if sub in ["u:", "o:"] else [4])"
ModFields(sub) == IF sub \in {SubU, SubO} THEN <<1, 2, 3, 4>> ELSE <<4>>

\* the mode mutations of one owner/owning-group/other entry present in curacl
ModsOfAce(sub, newace, curace, bigvalues) ==
    IF sub \in {SubU, SubG, SubO}
    THEN Flatten([k \in 1..Len(ModFields(sub)) |->
                    ModOfField(sub, ModFields(sub)[k],
                               bigvalue(bigvalues, ModFields(sub)[k],
                                        newace[ModFields(sub)[k]]),
                               curace[ModFields(sub)[k]])])
    ELSE <<>>

\* one character of the triad of a modified entry: a = ca if na == 0 else na
ModChar(i, na, ca) == IF (IF na = 0 THEN ca ELSE na) = -1 THEN "-" ELSE rwx[i]

\* the "modify entry" operation of one entry present in curacl
ModAceOfAce(sub, newace, curace, bigvalues) ==
    IF sub \notin {SubU, SubO}
       /\ \E i \in 1..3 : /\ bigvalue(bigvalues, i, newace[i]) # 0
                          /\ bigvalue(bigvalues, i, newace[i]) # curace[i]
    THEN <<sub \o <<":">>
           \o [i \in 1..3 |-> ModChar(i, bigvalue(bigvalues, i, newace[i]), curace[i])]>>
    ELSE <<>>

\* one character of the triad of an added entry
AddChar(i, na) == IF na = -1 THEN "-" ELSE rwx[i]

\* the "add entry" operation of one entry absent from curacl
AddAceOfAce(sub, newace, bigvalues) ==
    <<sub \o <<":">> \o [i \in 1..3 |-> AddChar(i, bigvalue(bigvalues, i, newace[i]))]>>

createchanges(curacl, newacl, bigvalues, replace) ==
    [mods |-> Flatten([k \in 1..Len(newacl) |->
                IF AclHas(curacl, newacl[k][0])
                THEN ModsOfAce(newacl[k][0], newacl[k], AclGet(curacl, newacl[k][0]),
                               bigvalues)
                ELSE <<>>]),
     addaces |-> Flatten([k \in 1..Len(newacl) |->
                IF AclHas(curacl, newacl[k][0]) THEN <<>>
                ELSE AddAceOfAce(newacl[k][0], newacl[k], bigvalues)]),
     modaces |-> Flatten([k \in 1..Len(newacl) |->
                IF AclHas(curacl, newacl[k][0])
                THEN ModAceOfAce(newacl[k][0], newacl[k], AclGet(curacl, newacl[k][0]),
                                 bigvalues)
                ELSE <<>>]),
     rmaces |-> IF replace
                THEN Flatten([k \in 1..Len(curacl) |->
                        IF AclHas(newacl, curacl[k][0]) THEN <<>>
                        ELSE <<curacl[k][0]>>])
                ELSE <<>>]

\* the bigvalues chacl passes: [[1, 1], [1, -1, 1]] for a directory,
\* [[curacl["u:"][3], -1], [0, 0, -1]] otherwise
chaclBigvalues(isdir, curacl) ==
    IF isdir THEN <<<<1, 1>>, <<1, -1, 1>>>>
    ELSE <<<<AclGet(curacl, SubU)[3], -1>>, <<0, 0, -1>>>>

NoChanges == [mods |-> <<>>, addaces |-> <<>>, modaces |-> <<>>, rmaces |-> <<>>]

\* the execute calls of chacl, in order: <<primitive, argument>>
chaclCommands(ch) ==
    (IF Len(ch.mods) > 0 THEN <<<<"chmod", Join(ch.mods, ",")>>>> ELSE <<>>)
    \o (IF Len(ch.rmaces) > 0 THEN <<<<"setfacl -x", Join(ch.rmaces, ",")>>>> ELSE <<>>)
    \o (IF Len(ch.modaces) > 0 THEN <<<<"setfacl -m", Join(ch.modaces, ",")>>>> ELSE <<>>)
    \o (IF Len(ch.addaces) > 0 THEN <<<<"setfacl -m", Join(ch.addaces, ",")>>>> ELSE <<>>)

\* chacl's outcome, ch being the changes computed against curacl
chaclChanged(curacl, ch) ==
    [err |-> "none", curacl |-> curacl, changes |-> ch, commands |-> chaclCommands(ch)]

\* chacl after getfacl returned or raised g
chaclRead(g, isdir, newacl, removeaces) ==
    IF g.err # "none"
    THEN [err |-> g.err, curacl |-> <<>>, changes |-> NoChanges, commands |-> <<>>]
    ELSE chaclChanged(g.acl, createchanges(g.acl, newacl, chaclBigvalues(isdir, g.acl),
                                           removeaces))

\* chacl up to its execute calls: the current ACL read, the changes computed
chacl(cur, newacl, removeaces) ==
    chaclRead(getfacl(cur, cur.st), cur.st.isdir, newacl, removeaces)

-----------------------------------------------------------------------------
(* The ACL branch of doit *)

\* nonexecfileexts (the entries the modelled file names can end with)
nonexecfileexts == << <<"7", "z">>, <<"c">>, <<"h">>, <<"t", "x", "t">> >>

\* str.lower() on the characters the modelled names are written with
LowerChar(c) ==
    CASE c = "C" -> "c"
      [] c = "H" -> "h"
      [] c = "F" -> "f"
      [] c = "T" -> "t"
      [] c = "X" -> "x"
      [] c = "Y" -> "y"
      [] OTHER -> c

lower(s) == [i \in 1..Len(s) |-> LowerChar(s[i])]

\* s.endswith(p)
EndsWith(s, p) == Len(s) >= Len(p) /\ SubSeq(s, Len(s) - Len(p) + 1, Len(s)) = p

\* whether the loop over nonexecfileexts finds the path's extension
IsNonExec(path) ==
    \E k \in 1..Len(nonexecfileexts) : EndsWith(lower(path), <<".">> \o nonexecfileexts[k])

\* for sub in list(newacl.keys()): if sub.startswith("d:"): del newacl[sub]
StripDefaults(acl) == SelectSeq(acl, LAMBDA a : ~StartsWith(a[0], <<"d", ":">>))

\* for sub in newacl.keys(): newacl[sub][3] = -1
ClearExec(acl) == [k \in 1..Len(acl) |-> [acl[k] EXCEPT ![3] = -1]]

\* the newacl doit passes to chacl: for a non-directory in the ACL branch, the
\* default entries are dropped and a non-executable extension clears execute
doitNewacl(acl, usedir, path, isdir) ==
    IF usedir \/ isdir THEN acl
    ELSE IF IsNonExec(path) THEN ClearExec(StripDefaults(acl))
    ELSE StripDefaults(acl)

\* chacl's outcome with the newacl and replace passed to it
doitAclResult(c, replace, newacl) ==
    [err |-> c.err, replace |-> replace, newacl |-> newacl, curacl |-> c.curacl,
     changes |-> c.changes, commands |-> c.commands]

doitAclCall(newacl, replace, cur) ==
    doitAclResult(chacl(cur, newacl, replace), replace, newacl)

\* doit after parseacl returned or raised p
doitAclParsed(p, replace, usedir, path, cur) ==
    IF p.err # "none"
    THEN [err |-> p.err, replace |-> replace, newacl |-> <<>>, curacl |-> <<>>,
          changes |-> NoChanges, commands |-> <<>>]
    ELSE doitAclCall(doitNewacl(p.acl, usedir, path, cur.st.isdir), replace, cur)

\* doit from "aclvalue = config.get(section, ...)" to the chacl call: usedir is true
\* in the DIRACL branch
doitAcl(aclvalue, usedir, path, cur) ==
    IF StartsWith(aclvalue, <<"+">>)
    THEN doitAclParsed(parseacl(SliceFrom(aclvalue, 1)), FALSE, usedir, path, cur)
    ELSE doitAclParsed(parseacl(aclvalue), TRUE, usedir, path, cur)

-----------------------------------------------------------------------------
(* SpecDiff: the ACL branch of doit applied to one path, for every current state
   and every policy string of the bounded sets below *)

\* the longest policy string, in ACEs
MaxAces == 3

AcePool ==
    << <<"u", ":", ":", "r", "w", "x">>,
       <<"u", ":", ":", "r", "w", "-">>,
       <<"u", ":", ":", "*", "*", "X">>,
       <<"u", ":", ":", "*", "*", "*">>,
       <<"u", ":", ":", "r", "w", "D", "S">>,
       <<"g", ":", ":", "r", "-", "X", "D">>,
       <<"g", ":", ":", "*", "*", "*">>,
       <<"o", "t", "h", "e", "r", ":", ":", "r", "-", "X">>,
       <<"o", ":", ":", "*", "*", "*">>,
       <<"u", ":", "b", ":", "r", "-", "X">>,
       <<"u", ":", "b", ":", "*", "*", "*">>,
       <<"m", ":", ":", "*", "*", "X">>,
       <<"m", ":", ":", "*", "*", "*">>,
       <<"d", ":", "u", ":", ":", "*", "*", "*">> >>

\* the ACEs of the pool at the positions of ks, in the pool's order
RECURSIVE PickAces(_, _)
PickAces(ks, from) ==
    IF from > Len(AcePool) THEN <<>>
    ELSE (IF from \in ks THEN <<AcePool[from]>> ELSE <<>>) \o PickAces(ks, from + 1)

AclStrings ==
    {Join(PickAces(ks, 1), ",") :
        ks \in {k \in SUBSET (1..Len(AcePool)) : Cardinality(k) \in 1..MaxAces}}

\* the lines getfacl prints for a path
GetfaclOutput(ux, gx, ox, named) ==
    << <<"#", " ", "f", "i", "l", "e">>,
       <<"u", "s", "e", "r", ":", ":", "r", "w", ux>>,
       <<"g", "r", "o", "u", "p", ":", ":", "r", "-", gx>>,
       <<"o", "t", "h", "e", "r", ":", ":", "r", "-", ox>> >>
    \o (IF named
        THEN << <<"u", "s", "e", "r", ":", "b", ":", "r", "-", "x">>,
                <<"m", "a", "s", "k", ":", ":", "r", "-", "x">> >>
        ELSE <<>>)
    \o << <<>> >>

Stat(isdir, sgid) == [present |-> TRUE, isdir |-> isdir, suid |-> FALSE, sgid |-> sgid,
                      svtx |-> FALSE, uid |-> 1, gid |-> 1]

CurStates ==
    {[st |-> Stat(isdir, isdir), getfaclfails |-> FALSE,
      lines |-> GetfaclOutput(ux, gx, ox, named)] :
        isdir \in BOOLEAN, ux \in {"x", "-"}, gx \in {"x", "-"}, ox \in {"x", "-"},
        named \in BOOLEAN}

DiffPaths == {<<"f">>, <<"f", ".", "C">>}

NoDiff == [done |-> FALSE]

DiffInputs ==
    {[cur |-> c, aclvalue |-> pre \o a, path |-> p] :
        c \in CurStates, a \in AclStrings, pre \in {<<>>, <<"+">>}, p \in DiffPaths}

DiffApply ==
    /\ din # NoDiff
    /\ ~dout.done
    /\ dout' = [done |-> TRUE] @@ doitAcl(din.aclvalue, FALSE, din.path, din.cur)
    /\ UNCHANGED din

-----------------------------------------------------------------------------
(* Policy tables: a ConfigParser is a sequence of sections in file order, each a
   name and its options; cfg.none is the Python value None *)

NoneConfig == [none |-> TRUE, secs |-> <<>>]

\* configparser.ConfigParser()
NewConfig == [none |-> FALSE, secs |-> <<>>]

Section(name, opts) == [name |-> name, opts |-> opts]

has_section(cfg, name) == \E i \in 1..Len(cfg.secs) : cfg.secs[i].name = name

GetSection(cfg, name) == cfg.secs[CHOOSE i \in 1..Len(cfg.secs) : cfg.secs[i].name = name]

has_option(cfg, name, option) ==
    has_section(cfg, name) /\ option \in DOMAIN GetSection(cfg, name).opts

remove_section(cfg, name) ==
    [cfg EXCEPT !.secs = SelectSeq(cfg.secs, LAMBDA x : x.name # name)]

\* add_section followed by the set calls that fill it
add_section(cfg, name, opts) == [cfg EXCEPT !.secs = Append(cfg.secs, Section(name, opts))]

\* the host's passwd and group databases: each known name's uid, gid and, for a
\* user, the name of its primary group
\* getpgrp: pwd.getpwnam raises KeyError for an unknown user
getpgrp(host, user) ==
    IF user \in DOMAIN host.pgrp
    THEN [err |-> "none", value |-> host.pgrp[user]]
    ELSE [err |-> "KeyError", value |-> <<>>]

\* getuid: pwd.getpwnam raises KeyError for an unknown user
getuid(host, name) ==
    IF name \in DOMAIN host.uid
    THEN [err |-> "none", value |-> host.uid[name]]
    ELSE [err |-> "KeyError", value |-> -1]

\* getgid: grp.getgrnam raises KeyError for an unknown group
getgid(host, name) ==
    IF name \in DOMAIN host.gid
    THEN [err |-> "none", value |-> host.gid[name]]
    ELSE [err |-> "KeyError", value |-> -1]

FinalTrue == {<<"t", "r", "u", "e">>, <<"y", "e", "s">>}
FinalFalse == {<<"f", "a", "l", "s", "e">>, <<"n", "o">>}

\* the FINAL option of a parent section: 1, -1, or an invalid value (RuntimeError)
FinalOf(sec) ==
    IF "FINAL" \in DOMAIN sec.opts
    THEN LET finalvalue == lower(sec.opts["FINAL"])
         IN  IF finalvalue \in FinalTrue THEN [err |-> "none", final |-> 1]
             ELSE IF finalvalue \notin FinalFalse THEN [err |-> "RuntimeError", final |-> -1]
             ELSE [err |-> "none", final |-> -1]
    ELSE [err |-> "none", final |-> -1]

Star == <<"/", "*">>

NoRewrite == [nsection |-> <<>>, nprio |-> -1, setowner |-> -1, setgroup |-> -1]

\* a rewrite that would hand every parent section to the child as its every-level
\* section, whatever the levels left in the pattern
RewriteEveryLevel(section, basename) == [NoRewrite EXCEPT !.nsection = Star]

\* the if/elif chain of readconfig that rewrites a parent section for the child
Rewrite(section, basename) ==
    LET lenbasename == Len(basename)
    IN  IF section = Star
        THEN [NoRewrite EXCEPT !.nsection = Star]
        ELSE IF Slice(section, 0, 3) = <<"/", "*", "/">>
        THEN [NoRewrite EXCEPT !.nsection = SliceFrom(section, 2), !.nprio = 0]
        ELSE IF Slice(section, 0, 4) = <<"/", "*", "O", "/">>
        THEN [NoRewrite EXCEPT !.nsection = SliceFrom(section, 3), !.setowner = 1,
                               !.nprio = 0]
        ELSE IF Slice(section, 0, 4) = <<"/", "*", "G", "/">>
        THEN [NoRewrite EXCEPT !.nsection = SliceFrom(section, 3), !.setgroup = 1,
                               !.nprio = 0]
        ELSE IF Slice(section, 0, 5) = <<"/", "*", "O", "G", "/">>
        THEN [NoRewrite EXCEPT !.nsection = SliceFrom(section, 4), !.setowner = 1,
                               !.setgroup = 1, !.nprio = 0]
        ELSE IF Slice(section, 0, 5) = <<"/", "*", "O", "P", "/">>
        THEN [NoRewrite EXCEPT !.nsection = SliceFrom(section, 4), !.setowner = 1,
                               !.setgroup = 2, !.nprio = 0]
        ELSE IF Slice(section, 0, 4) = <<"/", "*", "P", "/">>
        THEN [NoRewrite EXCEPT !.nsection = SliceFrom(section, 3), !.setgroup = 2,
                               !.nprio = 0]
        ELSE IF Slice(section, 0, lenbasename + 2) = <<"/">> \o basename \o <<"/">>
        THEN [NoRewrite EXCEPT !.nsection = SliceFrom(section, lenbasename + 1),
                               !.nprio = 1]
        ELSE NoRewrite

\* del d[key] on a dict kept as a function: KeyError when the key is absent
DictDel(d, key) ==
    IF key \in DOMAIN d
    THEN [err |-> "none", d |-> [k \in (DOMAIN d) \ {key} |-> d[k]]]
    ELSE [err |-> "KeyError", d |-> d]

\* the options the copied section ends with: the parent's, then OWNER and GROUP
CopiedOpts(sec, rw, basename, pgrp) ==
    LET o1 == IF rw.setowner = 1 THEN ("OWNER" :> basename) @@ sec.opts ELSE sec.opts
        o2 == IF rw.setgroup = 1 THEN ("GROUP" :> basename) @@ o1 ELSE o1
    IN  IF rw.setgroup = 2 THEN ("GROUP" :> pgrp) @@ o2 ELSE o2

\* The merge so far is m: config, added, the warnings logged, the exception raised.
\* "if config.has_section(nsection) and final == 1 and not nsection in added":
\* log, remove_section, del added[nsection]
MergeOverride(m, n, final) ==
    IF has_section(m.config, n) /\ final = 1 /\ n \notin DOMAIN m.added
    THEN [m EXCEPT !.config = remove_section(m.config, n),
                   !.added = DictDel(m.added, n).d,
                   !.warned = m.warned \cup {<<"final", n>>},
                   !.err = DictDel(m.added, n).err]
    ELSE m

\* "if nsection in added and added[nsection] < nprio": remove_section, del
MergeReplace(m, n, nprio) ==
    IF m.err = "none" /\ n \in DOMAIN m.added /\ m.added[n] < nprio
    THEN [m EXCEPT !.config = remove_section(m.config, n),
                   !.added = DictDel(m.added, n).d]
    ELSE m

\* "if nsection in added and added[nsection] == nprio": log the conflict
MergeConflict(m, n, nprio) ==
    IF m.err = "none" /\ n \in DOMAIN m.added /\ m.added[n] = nprio
    THEN [m EXCEPT !.warned = m.warned \cup {<<"conflict", n>>}]
    ELSE m

\* the section copied, with the group g that getpgrp gave (or raised on)
CopyInto(m, sec, rw, basename, g) ==
    [m EXCEPT !.config = add_section(m.config, rw.nsection,
                                     CopiedOpts(sec, rw, basename, g.value)),
              !.added = (rw.nsection :> rw.nprio) @@ m.added,
              !.err = g.err]

\* "if not config.has_section(nsection)": copy the parent's section
MergeCopy(m, sec, rw, basename, host) ==
    IF m.err = "none" /\ ~has_section(m.config, rw.nsection)
    THEN CopyInto(m, sec, rw, basename,
                  IF rw.setgroup = 2 THEN getpgrp(host, basename)
                  ELSE [err |-> "none", value |-> <<>>])
    ELSE m

\* "if nsection:" and its four steps, f and rw being the section's FINAL and rewrite
MergeRewritten(m, sec, basename, host, f, rw) ==
    IF f.err # "none" THEN [m EXCEPT !.err = f.err]
    ELSE IF Len(rw.nsection) = 0 THEN m
    ELSE MergeCopy(
            MergeConflict(
                MergeReplace(MergeOverride(m, rw.nsection, f.final),
                             rw.nsection, rw.nprio),
                rw.nsection, rw.nprio),
            sec, rw, basename, host)

\* one turn of "for section in parentconfig.sections()"
MergeSection(m, sec, basename, host) ==
    MergeRewritten(m, sec, basename, host, FinalOf(sec), Rewrite(sec.name, basename))

RECURSIVE MergeSections(_, _, _, _)
MergeSections(m, secs, basename, host) ==
    IF Len(secs) = 0 \/ m.err # "none" THEN m
    ELSE MergeSections(MergeSection(m, Head(secs), basename, host), Tail(secs),
                       basename, host)

\* globalfinal of readconfig: the FINAL option of the parent's "/*" section
GlobalFinal(parentconfig) ==
    IF has_section(parentconfig, Star)
    THEN FinalOf(GetSection(parentconfig, Star))
    ELSE [err |-> "none", final |-> -1]

\* "if globalfinal == 1": every local section is removed, with a warning each
WipeLocal(config, globalfinal) ==
    IF globalfinal = 1
    THEN [config |-> NewConfig, added |-> <<>>, err |-> "none",
          warned |-> {<<"global final", config.secs[i].name>> : i \in 1..Len(config.secs)}]
    ELSE [config |-> config, added |-> <<>>, err |-> "none", warned |-> {}]

\* what readconfig returns or raises after the merge m
MergeResult(m) ==
    IF m.err # "none" THEN [config |-> NoneConfig, warned |-> m.warned, err |-> m.err]
    ELSE [config |-> m.config, warned |-> m.warned, err |-> "none"]

MergeGlobal(config, parentconfig, basename, host, gf) ==
    IF gf.err # "none" THEN [config |-> NoneConfig, warned |-> {}, err |-> gf.err]
    ELSE MergeResult(MergeSections(WipeLocal(config, gf.final), parentconfig.secs,
                                   basename, host))

\* readconfig from "if parentconfig:" to the end of the merge: local is the table
\* read from the directory's own policy files (None when it has none)
mergeconfig(local, parentconfig, basename, host) ==
    IF parentconfig.none THEN [config |-> local, warned |-> {}, err |-> "none"]
    ELSE MergeGlobal(IF local.none THEN NewConfig ELSE local, parentconfig, basename,
                     host, GlobalFinal(parentconfig))

-----------------------------------------------------------------------------
(* SpecConfig: the merge of readconfig applied to one parent table and one child
   directory, for every pair of the bounded sets below *)

\* the longest parent table, in sections
MaxParent == 2

NameA == <<"a">>
NameAB == <<"a", "b">>

\* Each section carries its own name as its ACL value, which tells the sections
\* of a merged table apart.
PoolSection(name, final) ==
    Section(name, IF final = <<>> THEN ("ACL" :> name)
                  ELSE ("ACL" :> name) @@ ("FINAL" :> final))

FTrue == <<"T", "r", "u", "e">>
FYes == <<"y", "e", "s">>
FNo == <<"n", "o">>
FBad == <<"m", "a", "y", "b", "e">>

SectionPool ==
    {PoolSection(Star, f) : f \in {<<>>, FTrue, FBad}}
    \cup {PoolSection(<<"/", "*", "/">>, f) : f \in {<<>>, FTrue, FNo}}
    \cup {PoolSection(<<"/", "*", "/", "*">>, f) : f \in {<<>>, FTrue}}
    \cup {PoolSection(<<"/", "*", "O", "/">>, f) : f \in {<<>>, FYes}}
    \cup {PoolSection(<<"/", "*", "G", "/">>, f) : f \in {<<>>}}
    \cup {PoolSection(<<"/", "*", "O", "G", "/">>, f) : f \in {<<>>}}
    \cup {PoolSection(<<"/", "*", "O", "P", "/">>, f) : f \in {<<>>, FTrue}}
    \cup {PoolSection(<<"/", "*", "P", "/">>, f) : f \in {<<>>}}
    \cup {PoolSection(<<"/", "a", "/">>, f) : f \in {<<>>, FTrue}}
    \cup {PoolSection(<<"/", "a", "/", "*">>, f) : f \in {<<>>, FTrue}}
    \cup {PoolSection(<<"/", "a", "b", "/">>, f) : f \in {<<>>}}

ParentTables ==
    {[none |-> FALSE, secs |-> t] :
        t \in {u \in UNION {[1..n -> SectionPool] : n \in 0..MaxParent} :
                  \A i, j \in DOMAIN u : i # j => u[i].name # u[j].name}}

LocalTag == <<"l", "o", "c", "a", "l">>

LocalSection(name) == Section(name, "ACL" :> LocalTag)

LocalTables ==
    {NoneConfig,
     [none |-> FALSE, secs |-> <<LocalSection(<<"/">>)>>],
     [none |-> FALSE, secs |-> <<LocalSection(Star)>>],
     [none |-> FALSE, secs |-> <<LocalSection(<<"/">>), LocalSection(Star)>>]}

\* a host that knows the users a and ab, and one that knows neither
NameRoot == <<"r", "o", "o", "t">>
NameG == <<"g">>

HostKnown ==
    [uid |-> (NameRoot :> 0) @@ (NameA :> 1) @@ (NameAB :> 2),
     gid |-> (NameRoot :> 0) @@ (NameA :> 1) @@ (NameAB :> 2) @@ (NameG :> 3),
     pgrp |-> (NameRoot :> NameRoot) @@ (NameA :> NameG) @@ (NameAB :> NameG)]

HostUnknown ==
    [uid |-> (NameRoot :> 0), gid |-> (NameRoot :> 0), pgrp |-> (NameRoot :> NameRoot)]

NoConfigRun == [done |-> FALSE]

ConfigInputs ==
    {[parent |-> p, local |-> l, basename |-> b, host |-> h] :
        p \in ParentTables, l \in LocalTables, b \in {NameA, NameAB},
        h \in {HostKnown, HostUnknown}}

ConfigApply ==
    /\ cin # NoConfigRun
    /\ ~cout.done
    /\ cout' = [done |-> TRUE]
               @@ mergeconfig(cin.local, cin.parent, cin.basename, cin.host)
    /\ UNCHANGED cin

-----------------------------------------------------------------------------
(* The tree the run walks.  A path is the sequence of its names below the top
   directory Top, whose own parent holds no policy file. *)

Top == <<>>
PolicyName == <<".", ".", "a", "c", "l", "m", "a", "n">>
NameF == <<"f">>
NameL == <<"l">>
NameS == <<"s">>
NameN == <<"n", ".", "c">>
NameGone == <<"z">>

\* lstat: "dir", "file", "link", or "none" for a path that does not exist.
\* sc.policy maps each directory holding policy files to the table read from them.
NodeType(path, sc) ==
    CASE path \in {Top, <<NameA>>, <<NameAB>>, <<NameA, NameS>>} -> "dir"
      [] path \in {<<NameA, NameF>>, <<NameA, NameS, NameN>>} -> "file"
      [] path = <<NameA, NameL>> -> "link"
      [] Len(path) > 0 /\ path[Len(path)] = PolicyName
         /\ SubSeq(path, 1, Len(path) - 1) \in DOMAIN sc.policy -> "file"
      [] OTHER -> "none"

\* the policy file of a directory, when it holds one
PolicyEntry(dir, sc) == IF dir \in DOMAIN sc.policy THEN <<PolicyName>> ELSE <<>>

\* os.listdir(path), in the order the host returns the names
listdir(path, sc) ==
    CASE path = Top -> <<NameA>> \o PolicyEntry(path, sc) \o <<NameAB>>
      [] path = <<NameA>> -> <<NameF, NameL>> \o PolicyEntry(path, sc) \o <<NameS>>
      [] path = <<NameA, NameS>> -> <<NameN>> \o PolicyEntry(path, sc)
      [] OTHER -> PolicyEntry(path, sc)

\* os.path.dirname, os.path.basename
dirname(path) == SubSeq(path, 1, Len(path) - 1)
basename(path) == path[Len(path)]

\* the table read from a directory's own policy files
LocalConfig(path, sc) == IF path \in DOMAIN sc.policy THEN sc.policy[path] ELSE NoneConfig

\* the table of path from the merge m with its parent's table up.config
ReadconfigResult(path, up, m) ==
    [config |-> m.config, err |-> m.err,
     warned |-> up.warned \cup {<<w[1], path>> : w \in m.warned}]

\* up is what readconfig returned (or raised) for the parent directory
ReadconfigMerge(path, sc, up) ==
    IF up.err # "none" THEN up
    ELSE ReadconfigResult(path, up,
            mergeconfig(LocalConfig(path, sc), up.config, basename(path), sc.host))

RECURSIVE readconfig(_, _)
\* readconfig: the table of a directory is a function of the policy files above
\* it, so the per-worker cache (cache.config) only saves recomputing it.
readconfig(path, sc) ==
    IF NodeType(path, sc) # "dir" THEN readconfig(dirname(path), sc)
    ELSE IF path = Top
    THEN [config |-> LocalConfig(path, sc), warned |-> {}, err |-> "none"]
    ELSE ReadconfigMerge(path, sc, readconfig(dirname(path), sc))

\* the uid or gid chown passes to lchown for one directive: -1 when there is no
\* directive or the path already has the identity, 0 when the name is unknown
ChownId(name, looked, current) ==
    IF Len(name) = 0 THEN -1
    ELSE IF looked.err # "none" THEN 0
    ELSE IF looked.value = current THEN -1 ELSE looked.value

ChownResult(owner, group, u, g, uid, gid) ==
    [uid |-> uid, gid |-> gid,
     warned |-> (IF Len(owner) > 0 /\ u.err # "none" THEN {"unknown owner"} ELSE {})
                \cup (IF Len(group) > 0 /\ g.err # "none" THEN {"unknown group"} ELSE {}),
     call |-> uid # -1 \/ gid # -1]

ChownLooked(owner, group, st, u, g) ==
    ChownResult(owner, group, u, g, ChownId(owner, u, st.uid), ChownId(group, g, st.gid))

\* chown: the identities resolved, the warnings logged and the lchown decided
chown(host, owner, group, st) ==
    ChownLooked(owner, group, st, getuid(host, owner), getgid(host, group))

\* the section doit uses for a path, <<>> when there is none
SelectSection(config, isdir, path) ==
    LET base == IF isdir THEN <<".">> ELSE basename(path)
    IN  IF config.none THEN <<>>
        ELSE IF has_section(config, <<"/">> \o base) THEN <<"/">> \o base
        ELSE IF has_section(config, <<"/">>) THEN <<"/">>
        ELSE IF has_section(config, Star) THEN Star
        ELSE <<>>

\* the ACL doit forces on a policy file: "u::rw-,g::r--,o::r--"
PolicyFileAcl ==
    <<"u", ":", ":", "r", "w", "-", ",", "g", ":", ":", "r", "-", "-", ",",
      "o", ":", ":", "r", "-", "-">>

\* doit's outcome on one path: section is the section used (<<>> when none) and
\* acl its ACL option
NoVisit == [err |-> "none", issued |-> {}, logged |-> {}, warned |-> {},
            section |-> <<>>, acl |-> <<>>, listed |-> FALSE]

\* execute: the command is logged and, unless dry, run
execute(isdry, command) == IF isdry THEN {} ELSE {command}

\* The execute calls of one chacl (res: its outcome): every command is logged and
\* executed until one fails (c.applyfails: the first one does, unless dry).
Execute(r, res, path, c, isdry) ==
    LET fails == ~isdry /\ c.applyfails /\ Len(res.commands) > 0
        prims == IF fails THEN {res.commands[1][1]}
                 ELSE {res.commands[i][1] : i \in 1..Len(res.commands)}
    IN  IF res.err # "none" THEN [r EXCEPT !.err = res.err]
        ELSE [r EXCEPT !.logged = r.logged \cup {<<p, path>> : p \in prims},
                       !.issued = r.issued
                            \cup UNION {execute(isdry, <<p, path>>) : p \in prims},
                       !.err = IF fails THEN "RuntimeError" ELSE "none"]

\* os.lchown(path, getuid("root"), getgid("root")) of the policy file branch
PolicyFileChown(r, path, isdry) ==
    IF r.err # "none" THEN r
    ELSE [r EXCEPT !.issued = r.issued \cup {<<"lchown", path>>}]

\* the policy file branch of doit: chacl, then lchown to root
doitPolicyFile(r, path, cur, c, isdry) ==
    PolicyFileChown(
        Execute(r, chacl(cur, parseacl(PolicyFileAcl).acl, TRUE), path, c, isdry),
        path, isdry)

\* doit's call of chown, co being what chown resolved
doitChown(r, path, co, isdry) ==
    [r EXCEPT !.warned = r.warned \cup {<<w, path>> : w \in co.warned},
              !.logged = r.logged \cup (IF co.call THEN {<<"chown", path>>} ELSE {}),
              !.issued = r.issued
                        \cup (IF co.call THEN execute(isdry, <<"lchown", path>>) ELSE {})]

\* "# ACL, DIRACL": which option is used, and chacl on its value
doitAclOption(r, path, opts, cur, c, isdry) ==
    IF "DIRACL" \in DOMAIN opts /\ cur.st.isdir
    THEN Execute(r, doitAcl(opts["DIRACL"], TRUE, path, cur), path, c, isdry)
    ELSE IF "ACL" \in DOMAIN opts
    THEN Execute(r, doitAcl(opts["ACL"], FALSE, path, cur), path, c, isdry)
    ELSE r

OptionOr(opts, option) == IF option \in DOMAIN opts THEN opts[option] ELSE <<>>

Listed(r) == IF r.err = "none" THEN [r EXCEPT !.listed = TRUE] ELSE r

\* doit below "if section:", opts being the options of the section used
doitSection(r, path, opts, cur, c, host, isdry) ==
    IF "IGNORE" \in DOMAIN opts THEN r
    ELSE IF ~cur.st.isdir /\ StartsWith(basename(path), PolicyName)
    THEN doitPolicyFile(r, path, cur, c, isdry)
    ELSE Listed(doitAclOption(
                    doitChown(r, path,
                              chown(host, OptionOr(opts, "OWNER"), OptionOr(opts, "GROUP"),
                                    cur.st),
                              isdry),
                    path, opts, cur, c, isdry))

\* doit from "section = None" on, config being the table readconfig returned
doitSelected(r, path, config, section, cur, c, host, isdry) ==
    IF Len(section) = 0 THEN [r EXCEPT !.listed = TRUE]
    ELSE doitSection([r EXCEPT !.section = section,
                               !.acl = OptionOr(GetSection(config, section).opts, "ACL")],
                     path, GetSection(config, section).opts, cur, c, host, isdry)

\* doit after readconfig returned or raised rc
doitConfigured(path, rc, cur, c, host, isdry) ==
    IF rc.err # "none"
    THEN [NoVisit EXCEPT !.err = rc.err, !.warned = {<<w[1], path>> : w \in rc.warned}]
    ELSE doitSelected([NoVisit EXCEPT !.warned = {<<w[1], path>> : w \in rc.warned}],
                      path, rc.config, SelectSection(rc.config, cur.st.isdir, path),
                      cur, c, host, isdry)

\* doit on one path, up to "if isdir and recursive": c is the state the path is
\* found in (c.cur) and whether its first apply command fails (c.applyfails).
\* listed tells whether doit goes on to the listing.
doitPath(path, c, sc, isdry) ==
    IF NodeType(path, sc) \in {"none", "link"} THEN NoVisit
    ELSE doitConfigured(path, readconfig(path, sc),
                        [c.cur EXCEPT !.st.isdir = NodeType(path, sc) = "dir"],
                        c, sc.host, isdry)

\* a work queue element: [start] has no st, [entrypath, indent, entryst] has one
StartEntry(path) == [path |-> path, st |-> "none"]
ListedEntry(path, type) == [path |-> path, st |-> type]

\* a listing loop that would queue every entry it does not skip
QueuedAny(entrytype) == TRUE

\* whether the listing loop of doit queues an entry of this type (doit is called
\* inline for the others)
Queued(entrytype) == entrytype = "dir"

NoWalk == [err |-> "none", issued |-> {}, logged |-> {}, warned |-> {}, enq |-> <<>>,
           visited |-> {}]

\* the record of a visit: the path, the section doit used and its ACL option
Visit(path, r) == [path |-> path, section |-> r.section, acl |-> r.acl]

\* r extended by the outcome v of doit on path
Walked(r, path, v) ==
    [r EXCEPT !.err = v.err,
              !.issued = r.issued \cup v.issued,
              !.logged = r.logged \cup v.logged,
              !.warned = r.warned \cup v.warned,
              !.visited = IF v.err = "none" THEN r.visited \cup {Visit(path, v)}
                          ELSE r.visited]

RECURSIVE doitEntries(_, _, _, _, _, _)
\* "for entryname in os.listdir(path)": links are skipped, directories are put on
\* the work queue, doit is called on the others; an exception ends the loop
doitEntries(r, dir, names, ch, sc, isdry) ==
    IF Len(names) = 0 \/ r.err # "none" THEN r
    ELSE IF NodeType(dir \o <<Head(names)>>, sc) = "link"
    THEN doitEntries(r, dir, Tail(names), ch, sc, isdry)
    ELSE IF Queued(NodeType(dir \o <<Head(names)>>, sc))
    THEN doitEntries([r EXCEPT !.enq = Append(r.enq,
                                    ListedEntry(dir \o <<Head(names)>>,
                                                NodeType(dir \o <<Head(names)>>, sc)))],
                     dir, Tail(names), ch, sc, isdry)
    ELSE doitEntries(Walked(r, dir \o <<Head(names)>>,
                            doitPath(dir \o <<Head(names)>>, ch[dir \o <<Head(names)>>],
                                     sc, isdry)),
                     dir, Tail(names), ch, sc, isdry)

\* the paths one call of doit reads the state of
Touched(path, sc, isrec) ==
    {path} \cup (IF isrec /\ NodeType(path, sc) = "dir"
                 THEN {path \o <<listdir(path, sc)[i]>> : i \in 1..Len(listdir(path, sc))}
                 ELSE {})

\* doit goes on to the listing after v, its outcome on the path itself
doitListing(path, v, ch, sc, isdry, isrec) ==
    IF v.err = "none" /\ v.listed /\ NodeType(path, sc) = "dir" /\ isrec
    THEN doitEntries(Walked(NoWalk, path, v), path, listdir(path, sc), ch, sc, isdry)
    ELSE IF NodeType(path, sc) \in {"link", "none"} THEN NoWalk
    ELSE Walked(NoWalk, path, v)

\* doit(path): ch gives the state each touched path is found in
doit(path, ch, sc, isdry, isrec) ==
    doitListing(path, doitPath(path, ch[path], sc, isdry), ch, sc, isdry, isrec)

-----------------------------------------------------------------------------
(* Spec: the run.  The policy files, the host's identities and the start
   arguments are drawn from the scenarios below; the state each path is found in
   and the outcome of the external commands are chosen when doit reaches it. *)

\* "for i in range(4)" threads, and the invoking thread as worker 0
NumThreads == 4
Workers == 0..NumThreads

\* ACL of the usage text
AclUsage ==
    <<"u", ":", ":", "r", "w", "X", "-", ",", "g", ":", ":", "r", "-", "X", "D", ",",
      "o", ":", ":", "r", "-", "X", "-", ",", "d", ":", "u", ":", ":", "r", "w", "x">>
AclMerge == <<"+", "u", ":", ":", "r", "w", "x", ",", "g", ":", ":", "r", "-", "X">>
AclBad == <<"u", ":", ":", "r", "w", "q">>

Table(secs) == [none |-> FALSE, secs |-> secs]

\* [/a/*/*] ACL=...
PolicyCascade ==
    (Top :> Table(<<Section(<<"/", "a", "/", "*", "/", "*">>, "ACL" :> AclUsage)>>))

\* [/*] OWNER=ab GROUP=g ACL=+...
PolicyOwner ==
    (Top :> Table(<<Section(Star, ("OWNER" :> NameAB) @@ ("GROUP" :> NameG)
                                  @@ ("ACL" :> AclMerge))>>))

\* [/*OP/*] ACL=... FINAL=True
PolicyUsers ==
    (Top :> Table(<<Section(<<"/", "*", "O", "P", "/", "*">>,
                            ("ACL" :> AclUsage) @@ ("FINAL" :> FTrue))>>))

\* [/*/] ACL=... FINAL=True, and [/] ACL=+... in a
PolicyFinal ==
    (Top :> Table(<<Section(<<"/", "*", "/">>, ("ACL" :> AclUsage) @@ ("FINAL" :> FTrue))>>))
    @@ (<<NameA>> :> Table(<<Section(<<"/">>, "ACL" :> AclMerge)>>))

\* [/*] ACL=u::rwq
PolicyBad == (Top :> Table(<<Section(Star, "ACL" :> AclBad)>>))

\* [/*/] ACL=... FINAL=maybe
PolicyBadFinal ==
    (Top :> Table(<<Section(<<"/", "*", "/">>, ("ACL" :> AclUsage) @@ ("FINAL" :> FBad))>>))

\* the states the run finds its paths in, and whether the first apply command of
\* a path fails
RunChoices ==
    {[cur |-> [st |-> [Stat(FALSE, FALSE) EXCEPT !.uid = 2, !.gid = 3],
               getfaclfails |-> FALSE, lines |-> GetfaclOutput("x", "-", "-", FALSE)],
      applyfails |-> FALSE],
     [cur |-> [st |-> [Stat(FALSE, FALSE) EXCEPT !.uid = 0, !.gid = 0],
               getfaclfails |-> FALSE, lines |-> GetfaclOutput("-", "x", "-", TRUE)],
      applyfails |-> FALSE],
     [cur |-> [st |-> [Stat(FALSE, FALSE) EXCEPT !.uid = 0, !.gid = 0],
               getfaclfails |-> TRUE, lines |-> <<>>],
      applyfails |-> FALSE],
     [cur |-> [st |-> [Stat(FALSE, FALSE) EXCEPT !.uid = 0, !.gid = 0],
               getfaclfails |-> FALSE, lines |-> GetfaclOutput("-", "x", "-", TRUE)],
      applyfails |-> TRUE]}

\* the state of a path whose ACL reads and applies
EnvOk == CHOOSE c \in RunChoices : ~c.applyfails /\ ~c.cur.getfaclfails /\ c.cur.st.uid = 2

\* the state of a path whose first apply command fails
EnvApplyFails == CHOOSE c \in RunChoices : c.applyfails

\* the state of a path on which getfacl fails
EnvGetfaclFails == CHOOSE c \in RunChoices : c.cur.getfaclfails

Scenario(policy, host, env, starts, isdry, isrec) ==
    [policy |-> policy, host |-> host, env |-> env, starts |-> starts, dry |-> isdry,
     recursive |-> isrec]

\* the command lines: <<dry, recursive, starts>>
StartFile == <<NameA, NameF>>
StartDir == <<NameA, NameS>>

\* the runs: policy files, host, state of the paths and command line
Scenarios ==
    {Scenario(PolicyOwner, HostKnown, EnvOk, <<Top>>, FALSE, TRUE),
     Scenario(PolicyOwner, HostKnown, EnvOk, <<Top>>, TRUE, FALSE),
     Scenario(PolicyOwner, HostUnknown, EnvOk, <<StartFile, StartDir>>, FALSE, TRUE),
     Scenario(PolicyOwner, HostKnown, EnvApplyFails, <<StartFile, StartDir>>, FALSE, FALSE),
     Scenario(PolicyBad, HostKnown, EnvOk, <<StartFile, <<NameGone>>>>, TRUE, FALSE),
     Scenario(PolicyUsers, HostUnknown, EnvOk, <<Top>>, FALSE, TRUE),
     Scenario(PolicyCascade, HostKnown, EnvOk, <<Top>>, FALSE, TRUE),
     Scenario(PolicyOwner, HostKnown, EnvGetfaclFails, <<StartDir, StartFile>>, FALSE, FALSE),
     Scenario(PolicyBadFinal, HostKnown, EnvOk, <<Top>>, FALSE, TRUE)}

\* the policy files of the scenarios
Policies ==
    {PolicyCascade, PolicyOwner, PolicyUsers, PolicyFinal, PolicyBad, PolicyBadFinal}

\* the paths of the tree, and one that does not exist
TreePaths ==
    {Top, <<NameA>>, <<NameAB>>, <<NameA, NameF>>, <<NameA, NameL>>, <<NameA, NameS>>,
     <<NameA, NameS, NameN>>, <<PolicyName>>, <<NameA, PolicyName>>, <<NameGone>>}

NoVisitRun == [done |-> FALSE]

\* doit on one path: any policy, host, state of the paths, path and flags
VisitInputs ==
    {Scenario(p, h, e, <<path>>, isdry, isrec) :
        p \in Policies, h \in {HostKnown, HostUnknown}, e \in RunChoices,
        path \in TreePaths, isdry \in BOOLEAN, isrec \in BOOLEAN}

VisitApply ==
    /\ vin # NoVisitRun
    /\ ~vout.done
    /\ vout' = [done |-> TRUE]
               @@ doit(vin.starts[1],
                       [p \in Touched(vin.starts[1], vin, vin.recursive) |-> vin.env],
                       vin, vin.dry, vin.recursive)
    /\ UNCHANGED vin

NoEntry == [path |-> <<>>, st |-> "idle"]

\* scen when no run is modelled
NoScenario == Scenario(<<>>, HostUnknown, 0, <<>>, FALSE, FALSE)

\* the state when __main__ has parsed its arguments
Init ==
    /\ scen \in Scenarios
    /\ dry = scen.dry
    /\ recursive = scen.recursive
    /\ mainpc = "args"
    /\ workqueue = <<>>
    /\ should_exit = FALSE
    /\ pc = [w \in Workers |-> "off"]
    /\ entry = [w \in Workers |-> NoEntry]
    /\ issued = {}
    /\ logged = {}
    /\ warned = {}
    /\ visited = {}
    /\ caught = [w \in Workers |-> "none"]
    /\ late = [w \in Workers |-> 0]
    /\ sigint = FALSE
    /\ cin = NoConfigRun
    /\ cout = NoConfigRun
    /\ din = NoDiff
    /\ dout = NoDiff
    /\ vin = NoVisitRun
    /\ vout = NoVisitRun

\* a worker that never sees the flag set: the read it would make of a stale copy
get_should_exit_stale(flag) == FALSE

\* get_should_exit: the flag read under should_exit_lock
get_should_exit(flag) == flag

\* a worker that would clear the flag where the code sets it
WorkerExitValueCleared == FALSE

\* the value worker passes to set_should_exit when it has caught an exception
WorkerExitValue == TRUE

\* where worker goes after an exception escaped doit: out of the loop
AfterException == "except"

\* __main__: the starts are queued, the handler installed, the workers started
Main ==
    /\ mainpc = "args"
    /\ mainpc' = "started"
    /\ workqueue' = [i \in 1..Len(scen.starts) |-> StartEntry(scen.starts[i])]
    /\ pc' = [w \in Workers |-> "check"]
    /\ UNCHANGED <<scen, dry, recursive, should_exit, entry, issued, logged, warned,
                   visited, caught, late, sigint>>

\* handle_sig_int
SigInt ==
    /\ mainpc = "started"
    /\ ~sigint
    /\ sigint' = TRUE
    /\ should_exit' = TRUE
    /\ UNCHANGED <<scen, dry, recursive, mainpc, workqueue, pc, entry, issued, logged,
                   warned, visited, caught, late>>

\* worker: "if get_should_exit(): break"
Check(w) ==
    /\ pc[w] = "check"
    /\ pc' = [pc EXCEPT ![w] = IF get_should_exit(should_exit) THEN "done" ELSE "get"]
    /\ UNCHANGED <<scen, dry, recursive, mainpc, workqueue, should_exit, entry, issued,
                   logged, warned, visited, caught, late, sigint>>

\* worker: workqueue.get(True, 1) returns an entry
Get(w) ==
    /\ pc[w] = "get"
    /\ Len(workqueue) > 0
    /\ entry' = [entry EXCEPT ![w] = Head(workqueue)]
    /\ workqueue' = Tail(workqueue)
    /\ pc' = [pc EXCEPT ![w] = "doit"]
    /\ late' = [late EXCEPT ![w] = IF should_exit THEN late[w] + 1 ELSE late[w]]
    /\ UNCHANGED <<scen, dry, recursive, mainpc, should_exit, issued, logged, warned,
                   visited, caught, sigint>>

\* a get that would give up although an entry is queued
EmptyWhileQueued(queue) == TRUE

\* queue.Empty: get(True, 1) raises it when the timeout passes with no element in
\* the queue
Empty(queue) == Len(queue) = 0

\* worker: workqueue.get(True, 1) raises queue.Empty after the timeout
Timeout(w) ==
    /\ pc[w] = "get"
    /\ Empty(workqueue)
    /\ pc' = [pc EXCEPT ![w] = "done"]
    /\ UNCHANGED <<scen, dry, recursive, mainpc, workqueue, should_exit, entry, issued,
                   logged, warned, visited, caught, late, sigint>>

\* worker w after doit returned or raised r
DoItOutcome(w, r) ==
    /\ issued' = issued \cup r.issued
    /\ logged' = logged \cup r.logged
    /\ warned' = warned \cup r.warned
    /\ visited' = visited \cup r.visited
    /\ workqueue' = workqueue \o r.enq
    /\ pc' = [pc EXCEPT ![w] = IF r.err = "none" THEN "check" ELSE AfterException]
    /\ caught' = [caught EXCEPT ![w] = r.err]

\* worker: doit(*entry), then task_done; an exception leaves the loop
DoIt(w) ==
    /\ pc[w] = "doit"
    /\ DoItOutcome(w, doit(entry[w].path,
                            [p \in Touched(entry[w].path, scen, recursive) |-> scen.env],
                            scen, dry, recursive))
    /\ entry' = [entry EXCEPT ![w] = NoEntry]
    /\ UNCHANGED <<scen, dry, recursive, mainpc, should_exit, late, sigint>>

\* worker: "except: ... set_should_exit(True)", and the thread ends
Except(w) ==
    /\ pc[w] = "except"
    /\ should_exit' = WorkerExitValue
    /\ pc' = [pc EXCEPT ![w] = "done"]
    /\ UNCHANGED <<scen, dry, recursive, mainpc, workqueue, entry, issued, logged,
                   warned, visited, caught, late, sigint>>

Next ==
    \/ Main /\ UNCHANGED <<cin, cout, din, dout, vin, vout>>
    \/ SigInt /\ UNCHANGED <<cin, cout, din, dout, vin, vout>>
    \/ \E w \in Workers :
          \/ Check(w) /\ UNCHANGED <<cin, cout, din, dout, vin, vout>>
          \/ Get(w) /\ UNCHANGED <<cin, cout, din, dout, vin, vout>>
          \/ Timeout(w) /\ UNCHANGED <<cin, cout, din, dout, vin, vout>>
          \/ DoIt(w) /\ UNCHANGED <<cin, cout, din, dout, vin, vout>>
          \/ Except(w) /\ UNCHANGED <<cin, cout, din, dout, vin, vout>>

Spec == Init /\ [][Next]_vars

\* A step of worker w, as seen on pc alone: under Spec the steps that change only
\* pc[w] of a started, unfinished worker are the steps of worker w, and one of
\* them is enabled in each such position (Get or Timeout while in "get").
WorkerRuns(w) ==
    /\ pc[w] \in {"check", "get", "doit", "except"}
    /\ \E v \in {"check", "get", "doit", "except", "done"} :
          v # pc[w] /\ pc' = [pc EXCEPT ![w] = v]

\* every worker thread keeps running while it can take a step
FairSpec == Spec /\ \A w \in Workers : WF_pc(WorkerRuns(w))

ConfigNext == ConfigApply /\ UNCHANGED <<runvars, din, dout, vin, vout>>

\* readconfig's merge applied to one parent table, local file and directory name
ConfigInit ==
    /\ scen = NoScenario
    /\ dry = FALSE
    /\ recursive = FALSE
    /\ mainpc = "off"
    /\ workqueue = <<>>
    /\ should_exit = FALSE
    /\ pc = [w \in Workers |-> "off"]
    /\ entry = [w \in Workers |-> NoEntry]
    /\ issued = {}
    /\ logged = {}
    /\ warned = {}
    /\ visited = {}
    /\ caught = [w \in Workers |-> "none"]
    /\ late = [w \in Workers |-> 0]
    /\ sigint = FALSE
    /\ cin \in ConfigInputs
    /\ cout = NoConfigRun
    /\ din = NoDiff
    /\ dout = NoDiff
    /\ vin = NoVisitRun
    /\ vout = NoVisitRun

SpecConfig == ConfigInit /\ [][ConfigNext]_vars

DiffNext == DiffApply /\ UNCHANGED <<runvars, cin, cout, vin, vout>>

\* the ACL branch of doit applied to one path, current state and policy string
DiffInit ==
    /\ scen = NoScenario
    /\ dry = FALSE
    /\ recursive = FALSE
    /\ mainpc = "off"
    /\ workqueue = <<>>
    /\ should_exit = FALSE
    /\ pc = [w \in Workers |-> "off"]
    /\ entry = [w \in Workers |-> NoEntry]
    /\ issued = {}
    /\ logged = {}
    /\ warned = {}
    /\ visited = {}
    /\ caught = [w \in Workers |-> "none"]
    /\ late = [w \in Workers |-> 0]
    /\ sigint = FALSE
    /\ cin = NoConfigRun
    /\ cout = NoConfigRun
    /\ din \in DiffInputs
    /\ dout = NoDiff
    /\ vin = NoVisitRun
    /\ vout = NoVisitRun

SpecDiff == DiffInit /\ [][DiffNext]_vars

VisitNext == VisitApply /\ UNCHANGED <<runvars, cin, cout, din, dout>>

\* doit applied to one path of the tree
VisitInit ==
    /\ scen = NoScenario
    /\ dry = FALSE
    /\ recursive = FALSE
    /\ mainpc = "off"
    /\ workqueue = <<>>
    /\ should_exit = FALSE
    /\ pc = [w \in Workers |-> "off"]
    /\ entry = [w \in Workers |-> NoEntry]
    /\ issued = {}
    /\ logged = {}
    /\ warned = {}
    /\ visited = {}
    /\ caught = [w \in Workers |-> "none"]
    /\ late = [w \in Workers |-> 0]
    /\ sigint = FALSE
    /\ cin = NoConfigRun
    /\ cout = NoConfigRun
    /\ din = NoDiff
    /\ dout = NoDiff
    /\ vin \in VisitInputs
    /\ vout = NoVisitRun

SpecVisit == VisitInit /\ [][VisitNext]_vars

-----------------------------------------------------------------------------
(* The claims of the specification, each stated on the outcome of the
   specification it is checked under *)

\* C1 (SpecVisit): in dry mode doit issues no apply primitive (chmod, setfacl -x,
\* setfacl -m, lchown) on any path it visits, policy files included.
C1_DryIssuesNothing == (vout.done /\ vin.dry) => vout.issued = {}

\* the sections of a parent table that a child named child rewrites to key
RewritesTo(parent, child, key) ==
    {i \in 1..Len(parent.secs) : Rewrite(parent.secs[i].name, child).nsection = key}

\* every FINAL option of the table has a valid value
ValidFinals(parent) == \A i \in 1..Len(parent.secs) : FinalOf(parent.secs[i]).err = "none"

\* the keys the local tables define
LocalKeys == {<<"/">>, Star}

\* C2 (SpecConfig): for a parent section marked FINAL, the only one the child
\* rewrites to a key its local policy file defines, readconfig completes without
\* raising, a warning is logged for the key, and the parent's section is the one
\* found at the key in the child's table.  Stated for tables whose FINAL values
\* are all valid and a host that knows every name.
C2_FinalOverrideCompletes ==
    (cout.done /\ ValidFinals(cin.parent) /\ cin.host = HostKnown) =>
        \A i \in 1..Len(cin.parent.secs) : \A key \in LocalKeys :
            (/\ FinalOf(cin.parent.secs[i]).final = 1
             /\ RewritesTo(cin.parent, cin.basename, key) = {i}
             /\ has_section(cin.local, key))
            => /\ cout.err = "none"
               /\ has_section(cout.config, key)
               /\ GetSection(cout.config, key).opts["ACL"] = cin.parent.secs[i].name
               /\ \E w \in cout.warned : w[2] = key

\* nprio of the parent's i-th section for a child named child
PrioOf(parent, child, i) == Rewrite(parent.secs[i].name, child).nprio

\* the child's table holds, at key, the section copied from the parent's i-th
KeptAt(out, parent, i, key) ==
    /\ out.err = "none"
    /\ has_section(out.config, key)
    /\ GetSection(out.config, key).opts["ACL"] = parent.secs[i].name

\* C5 (SpecConfig): when two parent sections rewrite to the same key, which the
\* child does not define locally, the one of priority 1 is the one in the child's
\* table whatever their order, and of two of equal priority the first is kept and
\* no error is raised.  Stated for tables whose FINAL values are all valid.
C5_PriorityDecides ==
    (cout.done /\ ValidFinals(cin.parent)) =>
        \A i, j \in 1..Len(cin.parent.secs) : \A key \in LocalKeys :
            (/\ i # j
             /\ {i, j} \subseteq RewritesTo(cin.parent, cin.basename, key)
             /\ ~has_section(cin.local, key))
            => /\ (PrioOf(cin.parent, cin.basename, i) = 1
                   /\ PrioOf(cin.parent, cin.basename, j) = 0)
                  => KeptAt(cout, cin.parent, i, key)
               /\ (PrioOf(cin.parent, cin.basename, i) = PrioOf(cin.parent, cin.basename, j)
                   /\ i < j)
                  => KeptAt(cout, cin.parent, i, key)

\* C5 on a host that knows the child's base name: the priorities decide
C5_OnKnownHost == cin.host = HostKnown => C5_PriorityDecides

\* a run whose policy files are well formed and whose external commands succeed:
\* the only irregularity left is a name the host does not know
CleanRun(sc) == sc.policy \in {PolicyOwner, PolicyUsers} /\ sc.env = EnvOk

\* C6 (Spec): an unknown user or group name never aborts the run: in a run with
\* well-formed policy files, succeeding commands and no SIGINT, no worker catches
\* an exception and the cancellation flag is never set.
C6_UnknownNameNeverAborts ==
    (CleanRun(scen) /\ ~sigint) =>
        (~should_exit /\ \A w \in Workers : caught[w] = "none")

\* C3 (FairSpec): fail-fast propagation.  A worker in which an exception escaped
\* doit has left the loop: it only goes on to set the flag and end, and never
\* dequeues again; once it has ended the flag is set; the flag is never reset; and
\* from then on every one of the five workers eventually terminates.
C3_FailFast ==
    /\ [](\A w \in Workers :
            caught[w] # "none" =>
                /\ pc[w] \in {"except", "done"}
                /\ entry[w] = NoEntry
                /\ pc[w] = "done" => should_exit)
    /\ [][\A w \in Workers : caught[w] # "none" => entry'[w] = NoEntry]_vars
    /\ [][should_exit => should_exit']_vars
    /\ ((\E w \in Workers : caught[w] # "none")
          ~> (\A w \in Workers : pc[w] = "done"))

\* an exception escaped doit in some worker, all five workers have ended, and a
\* queued entry is left unprocessed
C3_Witness ==
    /\ \E w \in Workers : caught[w] # "none"
    /\ \A w \in Workers : pc[w] = "done"
    /\ Cardinality(Workers) = 5
    /\ Len(workqueue) > 0

\* C4 (Spec): cancellation is bounded: late[w] counts the dequeues worker w made
\* while the flag was set, and under any interleaving no worker makes more than
\* one; a worker that has read the flag as set ("done") holds no entry.
C4_AtMostOneLateDequeue ==
    \A w \in Workers :
        /\ late[w] <= 1
        /\ pc[w] = "done" => entry[w] = NoEntry

\* SIGINT set the flag and a worker that had read it before as unset dequeued once
C4_Witness == sigint /\ should_exit /\ \E w \in Workers : late[w] = 1 /\ pc[w] = "doit"

\* C7 as stated (Spec): every element of the work queue refers to a directory.
C7_OnlyDirectoriesQueued ==
    \A i \in 1..Len(workqueue) : NodeType(workqueue[i].path, scen) = "dir"

\* C7 amended (Spec): every element of the work queue is a start argument, queued
\* by __main__ whatever it names, or a directory found by a listing; an entry of
\* a listing that is not a directory never enters the queue.
C7_StartsAndListedDirectories ==
    \A i \in 1..Len(workqueue) :
        \/ /\ workqueue[i].st = "none"
           /\ \E k \in 1..Len(scen.starts) : scen.starts[k] = workqueue[i].path
        \/ /\ workqueue[i].st = "dir"
           /\ NodeType(workqueue[i].path, scen) = "dir"
           /\ Len(workqueue[i].path) > 0

\* a listing has queued a directory and visited the files beside it itself
C7_Witness ==
    /\ \E i \in 1..Len(workqueue) : workqueue[i].st = "dir"
    /\ \E v \in visited : NodeType(v.path, scen) = "file"

\* the entries of the tree inside a subdirectory of a
BelowSubdirectory(path) == Len(path) >= 3 /\ path[1] = NameA

\* C9 (Spec): with the section [/a/*/*] in the policy file of the top directory,
\* a itself and the file directly in a have no effective section and no operation
\* is issued or logged for them, while every entry inside a subdirectory of a
\* uses the every-level section '/*' carrying the section's ACL.
C9_CascadeDepth ==
    scen.policy = PolicyCascade =>
        /\ \A v \in visited :
              v.path \in {<<NameA>>, <<NameA, NameF>>} => v.section = <<>>
        /\ \A op \in issued \cup logged : op[2] \notin {<<NameA>>, <<NameA, NameF>>}
        /\ \A v \in visited :
              BelowSubdirectory(v.path) => v.section = Star /\ v.acl = AclUsage

\* the run has visited a, the file in a and the file in the subdirectory of a, and
\* issued an operation for the last
C9_Witness ==
    /\ scen.policy = PolicyCascade
    /\ {<<NameA>>, <<NameA, NameF>>, <<NameA, NameS, NameN>>}
          \subseteq {v.path : v \in visited}
    /\ \E op \in issued : op[2] = <<NameA, NameS, NameN>>

\* every field of every entry of the ACL is unspecified ('*')
AllUnspecified(acl) ==
    Len(acl) > 0 /\ \A k \in 1..Len(acl) : \A i \in 1..4 : acl[k][i] = 0

\* C8 (SpecDiff): a desired ACL whose entries have all their fields unspecified
\* gives four empty lists, whether or not its keys are all in the current ACL and
\* in replace as well as in merge mode.
C8_NoOpPolicy ==
    (dout.done /\ dout.err = "none" /\ AllUnspecified(dout.newacl)) =>
        dout.changes = NoChanges

\* the execute value the desired ACL decides for the owner of a file: the value it
\* sets or clears (x, -, D), else the owner's current value (*, X, no entry)
OwnerDecided(newacl, curacl) ==
    IF AclHas(newacl, SubU) /\ AclGet(newacl, SubU)[3] \in {1, -1}
    THEN AclGet(newacl, SubU)[3]
    ELSE IF AclHas(newacl, SubU) /\ AclGet(newacl, SubU)[3] = 3 THEN -1
    ELSE AclGet(curacl, SubU)[3]

\* C10 (SpecDiff): the changes are those obtained when 'X' reads, on a file, the
\* execute value decided for the owner (so that 'X' on the owner's own entry
\* changes nothing) and, on a directory, set.
C10_ExecuteFollowsOwner ==
    (dout.done /\ dout.err = "none") =>
        dout.changes =
            createchanges(dout.curacl, dout.newacl,
                          IF din.cur.st.isdir THEN <<<<1, 1>>, <<1, -1, 1>>>>
                          ELSE <<<<OwnerDecided(dout.newacl, dout.curacl), -1>>,
                                 <<0, 0, -1>>>>,
                          dout.replace)

\* an interrupt arrived or an operation raised
Failure == sigint \/ should_exit \/ \E w \in Workers : caught[w] # "none"

\* the directories of the tree (the same whatever the policy files)
Directories == {p \in TreePaths : NodeType(p, NoScenario) = "dir"}

\* C11 (FairSpec): completion without a barrier.  In recursive mode, as long as no
\* operation raises and no interrupt arrives, the workers have all ended only with
\* the queue empty, every directory on the work queue is eventually processed by
\* a worker, and every worker eventually terminates.
C11_Completion ==
    /\ []((recursive /\ ~Failure /\ \A w \in Workers : pc[w] = "done")
            => workqueue = <<>>)
    /\ \A p \in Directories :
          (recursive /\ \E i \in 1..Len(workqueue) : workqueue[i].path = p)
          ~> (Failure \/ \E v \in visited : v.path = p)
    /\ (recursive /\ mainpc = "started") ~> (\A w \in Workers : pc[w] = "done")

\* idle workers have ended on the timeout, and a listing made meanwhile by
\* another worker has left subdirectories on the queue
C11_Witness ==
    /\ recursive /\ ~Failure
    /\ \E w \in Workers : pc[w] = "done"
    /\ \E i \in 1..Len(workqueue) : workqueue[i].st = "dir"

====
